---- MODULE Spec2Model ----
(***************************************************************************)
(* Model of assets-loading-tracker: the passive hook useAssetLoader        *)
(* (scan/ignore options, scanImages, scanVideos, scanAudios, scanFonts,    *)
(* the progress effect) and the imperative hook useAssetLoader             *)
(* (loadImage, loadFont, loadVideo, reset), on top of React state: a       *)
(* setState call queues an update, a render applies every queued update    *)
(* and returns the snapshot, effects run after the render.                 *)
(***************************************************************************)
EXTENDS Integers, Sequences, FiniteSets, TLC

\* ---------------------------------------------------------------- bounds
MaxAssets == 2      \* elements and fonts present in the document
MaxTime == 8        \* the clock runs from 0 to MaxTime time units
MaxCalls == 2       \* load* calls made on the imperative hook
MaxTotal == 200     \* totalCount of the imperative hook before the calls

\* ------------------------------------------------------ program constants
TimeoutUnits == 7   \* setTimeout(..., 7000)
HAVE_ENOUGH_DATA == 4

NoTimer == -1
NoValue == -1

Kinds == {"images", "videos", "audios", "fonts"}

\* ------------------------------------------------------------ the document
\* One element of the page as the scanners read it.  Fields a kind does not
\* have keep a fixed filler value.
Element(kind, complete, naturalWidth, readyState, status) ==
  [kind |-> kind, complete |-> complete, naturalWidth |-> naturalWidth,
   readyState |-> readyState, status |-> status]

ImageStates ==
  { Element("images", TRUE, 1, 0, "-"),
    Element("images", TRUE, 0, 0, "-"),
    Element("images", FALSE, 0, 0, "-") }

MediaStates(kind) ==
  { Element(kind, FALSE, 0, rs, "-") : rs \in {3, 4} }

FontStates ==
  { Element("fonts", FALSE, 0, 0, st) :
      st \in {"loaded", "error", "unloaded", "loading"} }

ElementStates ==
  ImageStates \cup MediaStates("videos") \cup MediaStates("audios") \cup FontStates

KindRank(kind) ==
  CASE kind = "images" -> 1 [] kind = "videos" -> 2
    [] kind = "audios" -> 3 [] kind = "fonts" -> 4

StatusRank(status) ==
  CASE status = "loaded" -> 1 [] status = "error" -> 2
    [] status = "unloaded" -> 3 [] status = "loading" -> 4 [] OTHER -> 0

\* a total order on element states, by kind first
ElementRank(e) ==
  KindRank(e.kind) * 100 + (IF e.complete THEN 50 ELSE 0)
    + e.naturalWidth * 20 + e.readyState + StatusRank(e.status)

\* document.images, querySelectorAll("video"), querySelectorAll("audio") and
\* document.fonts are four separate lists; the document is kept as their
\* concatenation in the order the mount effect reads them.  The scanners
\* treat the elements of a list alike, so one order per list is kept.
Documents ==
  { d \in UNION { [1..n -> ElementStates] : n \in 0..MaxAssets } :
      \A i \in 1..Len(d) : \A j \in 1..Len(d) :
        i < j => ElementRank(d[i]) <= ElementRank(d[j]) }

\* ------------------------------------------------------------- the options
\* options?: { scan?: "all" | Kind[], ignore?: Kind[] }
ScanValues ==
  { [tag |-> "undefined", list |-> {}], [tag |-> "all", list |-> {}] }
    \cup { [tag |-> "list", list |-> s] : s \in SUBSET Kinds }

IgnoreValues ==
  { [tag |-> "undefined", list |-> {}] }
    \cup { [tag |-> "list", list |-> s] : s \in SUBSET Kinds }

UndefinedField == [tag |-> "undefined", list |-> {}]

NoOptions == [given |-> FALSE, scan |-> UndefinedField, ignore |-> UndefinedField]

AllOptions ==
  { NoOptions } \cup
  { [given |-> TRUE, scan |-> s, ignore |-> i] :
      s \in ScanValues, i \in IgnoreValues }

\* The option objects the behavioural specification mounts the hook with.
MainOptions ==
  { NoOptions,
    [given |-> TRUE, scan |-> [tag |-> "list", list |-> {"images", "fonts"}],
     ignore |-> [tag |-> "list", list |-> {"videos"}]],
    [given |-> TRUE, scan |-> UndefinedField,
     ignore |-> [tag |-> "list", list |-> {"images"}]] }

VARIABLES
  mode,          \* which hook is mounted: "passive" or "imperative";
                 \* "unmounted" once the passive hook is torn down
  options,       \* the argument of the passive hook
  doc,           \* the elements and fonts present in the document
  hasScanned,    \* useRef(false)
  effectReinvoked,  \* the step just taken was a second invocation of the
                 \* mount effect (strict mode)
  lateElement,   \* the step just taken appended an element to the document
  totalAssets,   \* useRef(0)
  scannedKinds,  \* the kinds whose scanner the mount effect has called
  listeners,     \* per element: the once-listeners still registered
  timer,         \* per element: the deadline of its pending timer, or NoTimer
  promise,       \* per element: "pending", "loaded" or "failed"
  thenDone,      \* per element: the .then callback of its promise has run
  incLoaded,     \* per element: setLoadedCount increments issued for it
  incFailed,     \* per element: setFailedCount increments issued for it
  now,           \* time units elapsed since the mount effect ran
  totalCount, loadedCount, failedCount, progress, isComplete,  \* last snapshot
  qTotal, qLoaded, qFailed,   \* queued updates of the three counters
  qProgress, qIsComplete,     \* queued setProgress / setIsComplete values
  calls          \* imperative hook: the load* calls made so far

vars ==
  << mode, options, doc, hasScanned, effectReinvoked, lateElement, totalAssets,
     scannedKinds, listeners,
     timer, promise, thenDone, incLoaded, incFailed, now,
     totalCount, loadedCount, failedCount, progress, isComplete,
     qTotal, qLoaded, qFailed, qProgress, qIsComplete, calls >>

trackVars ==
  << listeners, timer, promise, thenDone, incLoaded, incFailed >>

snapshotVars == << totalCount, loadedCount, failedCount, progress, isComplete >>

queueVars == << qTotal, qLoaded, qFailed, qProgress, qIsComplete >>

Resources == 1..Len(doc)

\* ------------------------------------------------------------ React state
\* A queue of updates of one useState cell, composed: the last plain value
\* set (or NoValue) followed by the number of (prev) => prev + 1 updates.
EmptyQueue == [set |-> NoValue, add |-> 0]

SetValueKeepingQueued(q, v) == [set |-> v, add |-> q.add]

\* setX(v): the updates queued before it no longer matter
SetValue(q, v) == [set |-> v, add |-> 0]

IncrementFromSnapshot(q) == [set |-> q.set, add |-> 1]

\* setX((prev) => prev + 1)
Increment(q) == [set |-> q.set, add |-> q.add + 1]

IncrementBy(q, n) == [set |-> q.set, add |-> q.add + n]

ApplyQueueKeepingLastUpdate(q, prev) ==
  (IF q.set = NoValue THEN prev ELSE q.set) + (IF q.add > 0 THEN 1 ELSE 0)

ApplyQueue(q, prev) == (IF q.set = NoValue THEN prev ELSE q.set) + q.add

NoPending == [has |-> FALSE, num |-> 0, den |-> 1, flag |-> FALSE]

\* progress is the rational number num / den
Ratio(num, den) == [num |-> num, den |-> den]

RatioEq(a, b) == a.num * b.den = b.num * a.den

RatioLeq(a, b) == a.num * b.den <= b.num * a.den


\* ------------------------------------------------------------- the scanners
Tracking(p, ls, t, sync) ==
  [promise |-> p, listeners |-> ls, timer |-> t, sync |-> sync]

\* an element whose kind is not scanned
Untracked == Tracking("pending", {}, NoTimer, "none")

ResolveAgain(p, value) == value

\* a promise settles once: resolving a settled promise changes nothing
Resolve(p, value) == IF p = "pending" THEN value ELSE p

\* { once: true } removes the listener that fired; a font's load promise
\* settles once, which retires both of its reactions
RemoveAfterFire(kind, ls, ev) == IF kind = "fonts" THEN {} ELSE ls \ {ev}

scanImageTrustingComplete(image) ==
  IF image.complete
    THEN Tracking("loaded", {}, NoTimer, "none")
    ELSE Tracking("pending", {"success", "error"}, NoTimer, "none")

\* image.complete ? resolve(image.naturalWidth > 0 ? "loaded" : "failed")
\*                : load / error listeners
scanImage(image) ==
  IF image.complete
    THEN Tracking(IF image.naturalWidth > 0 THEN "loaded" ELSE "failed",
                  {}, NoTimer, "none")
    ELSE Tracking("pending", {"success", "error"}, NoTimer, "none")

scanVideoWithoutFastPath(video, t) ==
  Tracking("pending", {"success", "error"}, t + TimeoutUnits, "none")

scanVideo(video, t) ==
  IF video.readyState >= HAVE_ENOUGH_DATA
    THEN Tracking("loaded", {}, t + TimeoutUnits, "none")
    ELSE Tracking("pending", {"success", "error"}, t + TimeoutUnits, "none")

scanAudioAlwaysListening(audio, t) ==
  Tracking(IF audio.readyState >= HAVE_ENOUGH_DATA THEN "loaded" ELSE "pending",
           {"success", "error"}, t + TimeoutUnits, "none")

scanAudio(audio, t) ==
  IF audio.readyState >= HAVE_ENOUGH_DATA
    THEN Tracking("loaded", {}, t + TimeoutUnits, "none")
    ELSE Tracking("pending", {"success", "error"}, t + TimeoutUnits, "none")

scanFontWaitingForUnloaded(font, t) ==
  CASE font.status = "loaded" -> Tracking("loaded", {}, NoTimer, "loaded")
    [] font.status = "error" -> Tracking("failed", {}, NoTimer, "failed")
    [] font.status \in {"unloaded", "loading"} ->
         Tracking("pending", {"success", "error"}, t + TimeoutUnits, "none")
    [] OTHER -> Untracked

\* a font that is loaded, in error or unloaded is counted by a setState call
\* made during the scan itself (sync); a loading font is raced with a timer
scanFont(font, t) ==
  CASE font.status = "loaded" -> Tracking("loaded", {}, NoTimer, "loaded")
    [] font.status = "error" -> Tracking("failed", {}, NoTimer, "failed")
    [] font.status = "unloaded" -> Tracking("loaded", {}, NoTimer, "loaded")
    [] font.status = "loading" ->
         Tracking("pending", {"success", "error"}, t + TimeoutUnits, "none")
    [] OTHER -> Untracked

scanElement(e, t) ==
  CASE e.kind = "images" -> scanImage(e)
    [] e.kind = "videos" -> scanVideo(e, t)
    [] e.kind = "audios" -> scanAudio(e, t)
    [] e.kind = "fonts" -> scanFont(e, t)

CountKind(d, kind) == Cardinality({ r \in 1..Len(d) : d[r].kind = kind })

totalImagesStillLoading(d) ==
  Cardinality({ r \in 1..Len(d) : d[r].kind = "images" /\ ~d[r].complete })

totalImages(d) == CountKind(d, "images")

totalVideosUncounted(d) == 0

totalVideos(d) == CountKind(d, "videos")

totalAudios(d) == CountKind(d, "audios")

totalFontsSkippingUnloaded(d) ==
  Cardinality({ r \in 1..Len(d) :
    d[r].kind = "fonts" /\ d[r].status \in {"loaded", "error", "loading"} })

\* totalFonts++ in each of the four status branches
totalFonts(d) ==
  Cardinality({ r \in 1..Len(d) :
    d[r].kind = "fonts"
      /\ d[r].status \in {"loaded", "error", "unloaded", "loading"} })

totalOfKind(d, kind) ==
  CASE kind = "images" -> totalImages(d)
    [] kind = "videos" -> totalVideos(d)
    [] kind = "audios" -> totalAudios(d)
    [] kind = "fonts" -> totalFonts(d)

scanOptionDefaultOnlyWithoutOptions(opts) ==
  IF opts.given THEN opts.scan ELSE [tag |-> "all", list |-> {}]

\* const { scan = "all", ignore = [] } = options || {}
scanOption(opts) ==
  IF opts.given /\ opts.scan.tag # "undefined"
    THEN opts.scan
    ELSE [tag |-> "all", list |-> {}]

ignoreOption(opts) ==
  IF opts.given /\ opts.ignore.tag # "undefined" THEN opts.ignore.list ELSE {}

shouldScanWithoutIgnore(kind, opts) ==
  scanOption(opts).tag = "all" \/ kind \in scanOption(opts).list

\* (scan === "all" || scan.includes(kind)) && !ignore.includes(kind)
shouldScan(kind, opts) ==
  (scanOption(opts).tag = "all" \/ kind \in scanOption(opts).list)
    /\ kind \notin ignoreOption(opts)

RECURSIVE SumOver(_, _)
SumOver(S, f) ==
  IF S = {} THEN 0
  ELSE LET x == CHOOSE y \in S : TRUE IN f[x] + SumOver(S \ {x}, f)

\* ------------------------------------------------------------------- Init
InitState(opts) ==
  /\ mode \in {"passive", "imperative"}
  /\ options \in (IF mode = "passive" THEN opts ELSE {NoOptions})
  /\ doc \in (IF mode = "passive" THEN Documents ELSE {<< >>})
  /\ hasScanned = FALSE
  /\ effectReinvoked = FALSE
  /\ lateElement = FALSE
  /\ totalAssets = 0
  /\ scannedKinds = {}
  /\ listeners = [r \in Resources |-> {}]
  /\ timer = [r \in Resources |-> NoTimer]
  /\ promise = [r \in Resources |-> "pending"]
  /\ thenDone = [r \in Resources |-> FALSE]
  /\ incLoaded = [r \in Resources |-> 0]
  /\ incFailed = [r \in Resources |-> 0]
  /\ now = 0
  /\ totalCount = 0
  /\ loadedCount = 0
  /\ failedCount = 0
  /\ progress = Ratio(0, 1)
  /\ isComplete = FALSE
  /\ qTotal = EmptyQueue
  /\ qLoaded = EmptyQueue
  /\ qFailed = EmptyQueue
  /\ qProgress = NoPending
  /\ qIsComplete = NoPending
  /\ calls = << >>

Init == InitState(MainOptions)

\* ------------------------------------------------------- the passive hook
\* a setState call has queued an update that no render has applied yet
UpdatePending ==
  \/ qTotal # EmptyQueue
  \/ qLoaded # EmptyQueue
  \/ qFailed # EmptyQueue
  \/ qProgress.has
  \/ qIsComplete.has

\* React renders a mounted hook that has updates queued; updates issued to
\* a hook that is no longer mounted are never rendered
RenderScheduled == mode # "unmounted" /\ UpdatePending

\* no promise reaction is waiting to run
NoMicrotask == \A r \in Resources : promise[r] = "pending" \/ thenDone[r]

\* The state the mount effect leaves behind: nothing has run since the scan.
JustScanned ==
  /\ hasScanned
  /\ now = 0
  /\ qTotal.set # NoValue
  /\ \A r \in Resources :
       LET tr == IF doc[r].kind \in scannedKinds THEN scanElement(doc[r], 0)
                                                 ELSE Untracked
       IN /\ listeners[r] = tr.listeners
          /\ timer[r] = tr.timer
          /\ promise[r] = tr.promise
          /\ thenDone[r] = (tr.sync # "none")

alreadyScannedNever(flag) == FALSE

\* if (hasScanned.current) { return; }
alreadyScanned(flag) == flag

\* The mount effect: the hasScanned guard, the four scanners, setTotalCount.
\* React invokes it when the hook mounts and, in strict mode, once more in the
\* same commit, before any promise reaction, event or render.
MountEffect ==
  /\ mode = "passive"
  /\ hasScanned => (JustScanned /\ ~effectReinvoked)
  /\ effectReinvoked' = hasScanned
  /\ lateElement' = FALSE
  /\ IF alreadyScanned(hasScanned)
       THEN UNCHANGED << mode, options, doc, hasScanned, totalAssets,
                         scannedKinds, trackVars, now, snapshotVars,
                         queueVars, calls >>
       ELSE
         LET sk == { k \in Kinds : shouldScan(k, options) }
             tr == [r \in Resources |->
                      IF doc[r].kind \in sk THEN scanElement(doc[r], now)
                                            ELSE Untracked]
             found == SumOver(sk, [k \in Kinds |-> totalOfKind(doc, k)])
         IN /\ hasScanned' = TRUE
            /\ scannedKinds' = sk
            /\ listeners' = [r \in Resources |-> tr[r].listeners]
            /\ timer' = [r \in Resources |-> tr[r].timer]
            /\ promise' = [r \in Resources |-> tr[r].promise]
            /\ thenDone' = [r \in Resources |-> tr[r].sync # "none"]
            /\ incLoaded' =
                 [r \in Resources |->
                    incLoaded[r] + (IF tr[r].sync = "loaded" THEN 1 ELSE 0)]
            /\ incFailed' =
                 [r \in Resources |->
                    incFailed[r] + (IF tr[r].sync = "failed" THEN 1 ELSE 0)]
            /\ qLoaded' = IncrementBy(qLoaded,
                 Cardinality({ r \in Resources : tr[r].sync = "loaded" }))
            /\ qFailed' = IncrementBy(qFailed,
                 Cardinality({ r \in Resources : tr[r].sync = "failed" }))
            /\ totalAssets' = totalAssets + found
            /\ qTotal' = SetValue(qTotal, totalAssets + found)
            /\ UNCHANGED << mode, options, doc, now, snapshotVars,
                            qProgress, qIsComplete, calls >>

thenReactionCountingAttempts(r, result) ==
  /\ thenDone' = [thenDone EXCEPT ![r] = TRUE]
  /\ qLoaded' = Increment(qLoaded)
  /\ incLoaded' = [incLoaded EXCEPT ![r] = @ + 1]
  /\ IF result = "loaded"
       THEN UNCHANGED << qFailed, incFailed >>
       ELSE /\ qFailed' = Increment(qFailed)
            /\ incFailed' = [incFailed EXCEPT ![r] = @ + 1]

\* loadX.then((result) => result === "loaded" ? setLoadedCount(+1)
\*                                            : setFailedCount(+1))
thenReaction(r, result) ==
  /\ thenDone' = [thenDone EXCEPT ![r] = TRUE]
  /\ IF result = "loaded"
       THEN /\ qLoaded' = Increment(qLoaded)
            /\ incLoaded' = [incLoaded EXCEPT ![r] = @ + 1]
            /\ UNCHANGED << qFailed, incFailed >>
       ELSE /\ qFailed' = Increment(qFailed)
            /\ incFailed' = [incFailed EXCEPT ![r] = @ + 1]
            /\ UNCHANGED << qLoaded, incLoaded >>

\* The reaction of a promise that the scan itself resolved (an element on
\* the fast path) runs as a microtask after the mount effect.
ThenCallback(r) ==
  /\ mode = "passive"
  /\ promise[r] # "pending"
  /\ ~thenDone[r]
  /\ thenReaction(r, promise[r])
  /\ effectReinvoked' = FALSE
  /\ lateElement' = FALSE
  /\ UNCHANGED << mode, options, doc, hasScanned, totalAssets, scannedKinds,
                  listeners, timer, promise, now, snapshotVars,
                  qTotal, qProgress, qIsComplete, calls >>

\* resolve(value) called from a listener or a timer callback; the reaction of
\* a promise this settles runs before the event loop takes its next task
settle(r, value) ==
  /\ promise' = [promise EXCEPT ![r] = Resolve(@, value)]
  /\ IF Resolve(promise[r], value) # promise[r]
       THEN thenReaction(r, Resolve(promise[r], value))
       ELSE UNCHANGED << thenDone, qLoaded, qFailed, incLoaded, incFailed >>

\* The element fires ev ("success": load / canplay / font loaded;
\* "error": error / font load rejected); a registered listener resolves.
\* Only elements the scan registered listeners on are followed, and a font's
\* load promise settles once.  An event of an element whose promise is
\* already settled reaches no React state: it commutes with the renders that
\* are scheduled and is taken after them.
FireEvent(r, ev, value) ==
  /\ mode \in {"passive", "unmounted"}
  /\ hasScanned
  /\ NoMicrotask
  /\ doc[r].kind \in scannedKinds
  /\ scanElement(doc[r], 0).listeners # {}
  /\ doc[r].kind = "fonts" => ev \in listeners[r]
  /\ promise[r] # "pending" => ~RenderScheduled
  /\ IF ev \in listeners[r]
       THEN /\ listeners' =
                 [listeners EXCEPT ![r] = RemoveAfterFire(doc[r].kind, @, ev)]
            /\ settle(r, value)
       ELSE UNCHANGED << listeners, promise, thenDone, qLoaded, qFailed,
                         incLoaded, incFailed >>
  /\ effectReinvoked' = FALSE
  /\ lateElement' = FALSE
  /\ UNCHANGED << mode, options, doc, hasScanned, totalAssets, scannedKinds,
                  timer, now, snapshotVars, qTotal, qProgress, qIsComplete,
                  calls >>

SuccessEvent(r) == FireEvent(r, "success", "loaded")

ErrorEvent(r) == FireEvent(r, "error", "failed")

timeoutResultLoaded == "loaded"

\* the value the timer callback resolves with
timeoutResult == "failed"

\* setTimeout(() => resolve("failed"), 7000)
TimerFire(r) ==
  /\ mode \in {"passive", "unmounted"}
  /\ NoMicrotask
  /\ timer[r] # NoTimer
  /\ timer[r] <= now
  /\ timer' = [timer EXCEPT ![r] = NoTimer]
  /\ settle(r, timeoutResult)
  /\ effectReinvoked' = FALSE
  /\ lateElement' = FALSE
  /\ UNCHANGED << mode, options, doc, hasScanned, totalAssets, scannedKinds,
                  listeners, now, snapshotVars, qTotal, qProgress,
                  qIsComplete, calls >>

\* what the cleanup of the mount effect leaves of an element's listeners:
\* the effect returns no cleanup function
listenersAfterCleanup(ls) == ls

\* what the cleanup of the mount effect leaves of an element's timer
timerAfterCleanup(t) == t

\* React unmounts the component that uses the passive hook: it runs the
\* cleanup functions of its effects and renders it no more.  The counters of
\* the last snapshot stay as they are.  What the hook does at teardown does
\* not depend on the time or on the events handled before it, so the teardown
\* is followed from the first instant, with the listeners and the timers of
\* the scan all still in place.
Unmount ==
  /\ mode = "passive"
  /\ hasScanned
  /\ NoMicrotask
  /\ ~UpdatePending
  /\ now = 0
  /\ \A r \in Resources :
       doc[r].kind \in scannedKinds =>
         listeners[r] = scanElement(doc[r], 0).listeners
  /\ mode' = "unmounted"
  /\ listeners' = [r \in Resources |-> listenersAfterCleanup(listeners[r])]
  /\ timer' = [r \in Resources |-> timerAfterCleanup(timer[r])]
  /\ effectReinvoked' = FALSE
  /\ lateElement' = FALSE
  /\ UNCHANGED << options, doc, hasScanned, totalAssets, scannedKinds,
                  promise, thenDone, incLoaded, incFailed, now,
                  snapshotVars, queueVars, calls >>

onElementAddedCounted(total) == total + 1

\* Nothing in the hook observes the document: what an element appended
\* after the scan does to totalAssets.current
onElementAdded(total) == total

\* The page appends an image, video, audio or font to the document after the
\* mount effect has run.  No scanner runs again, so the element gets no
\* listener, no timer and no promise, and its events reach no handler.  The
\* page's code runs as a task of its own, after the renders React has
\* scheduled.
AppendElement ==
  /\ mode = "passive"
  /\ hasScanned
  /\ NoMicrotask
  /\ ~UpdatePending
  /\ ~lateElement
  /\ lateElement' = TRUE
  /\ effectReinvoked' = FALSE
  /\ totalAssets' = onElementAdded(totalAssets)
  /\ UNCHANGED << mode, options, doc, hasScanned, scannedKinds, trackVars,
                  now, snapshotVars, queueVars, calls >>

\* The instants at which the clock is observed: one unit before the timeout
\* of the scan, the timeout itself, and from then on every unit.  No step of
\* the program depends on the time between two such instants.
NextInstant ==
  IF now < TimeoutUnits - 1 THEN TimeoutUnits - 1 ELSE now + 1

\* Time passes.  A due timer fires before time moves on, and the renders
\* React has scheduled run before the clock is observed again.
Tick ==
  /\ mode \in {"passive", "unmounted"}
  /\ hasScanned
  /\ NoMicrotask
  /\ ~RenderScheduled
  /\ now < MaxTime
  /\ \A r \in Resources : timer[r] = NoTimer \/ timer[r] > now
  /\ now' = NextInstant
  /\ effectReinvoked' = FALSE
  /\ lateElement' = FALSE
  /\ UNCHANGED << mode, options, doc, hasScanned, totalAssets, scannedKinds,
                  trackVars, snapshotVars, queueVars, calls >>

newProgressAsFraction(loaded, failed, total) == Ratio(loaded + failed, total)

\* const newProgress = ((loadedCount + failedCount) / totalCount) * 100
newProgress(loaded, failed, total) == Ratio((loaded + failed) * 100, total)

allAssetsFinishedLoadedOnly(loaded, failed, total) == loaded = total

\* const allAssetsFinished = loadedCount + failedCount === totalCount
allAssetsFinished(loaded, failed, total) == loaded + failed = total

\* ---------------------------------------------------- the imperative hook
\* Math.round(x) for x = num / den >= 0
Round(num, den) == (2 * num + den) \div (2 * den)

impProgress(loaded, total) ==
  IF total > 0 THEN Round(loaded * 100, total) ELSE 0

impIsCompleteUnguarded(loaded, total) == loaded = total

impIsComplete(loaded, total) == total > 0 /\ loaded = total

onAssetLoadedCountingDown(q) == [set |-> q.set, add |-> q.add - 1]

\* const onAssetLoaded = () => setLoadedCount((prev) => prev + 1)
onAssetLoaded(q) == Increment(q)

incrementTotalTwice(q) == Increment(Increment(q))

\* const incrementTotal = () => setTotalCount((prev) => prev + 1)
incrementTotal(q) == Increment(q)

passiveVars ==
  << options, doc, hasScanned, effectReinvoked, lateElement, totalAssets,
     scannedKinds,
     trackVars, now >>

Call(kind, st) == [kind |-> kind, st |-> st]

\* loadImage(src): incrementTotal(), then an Image with onload / onerror
loadImage ==
  /\ mode = "imperative"
  /\ Len(calls) < MaxCalls
  /\ qTotal' = incrementTotal(qTotal)
  /\ calls' = Append(calls, Call("image", "pending"))
  /\ UNCHANGED << mode, passiveVars, snapshotVars, qLoaded, qFailed,
                  qProgress, qIsComplete >>

\* loadVideo(src): incrementTotal(), then a video with onloadeddata / onerror
loadVideo ==
  /\ mode = "imperative"
  /\ Len(calls) < MaxCalls
  /\ qTotal' = incrementTotal(qTotal)
  /\ calls' = Append(calls, Call("video", "pending"))
  /\ UNCHANGED << mode, passiveVars, snapshotVars, qLoaded, qFailed,
                  qProgress, qIsComplete >>

\* loadFont(family, src?): incrementTotal(), then setTimeout(onAssetLoaded, 100)
loadFont ==
  /\ mode = "imperative"
  /\ Len(calls) < MaxCalls
  /\ qTotal' = incrementTotal(qTotal)
  /\ calls' = Append(calls, Call("font", "timer"))
  /\ UNCHANGED << mode, passiveVars, snapshotVars, qLoaded, qFailed,
                  qProgress, qIsComplete >>

\* img.onload / video.onloadeddata: onAssetLoaded(); resolve()
onload(i) ==
  /\ mode = "imperative"
  /\ calls[i].kind \in {"image", "video"}
  /\ calls[i].st = "pending"
  /\ qLoaded' = onAssetLoaded(qLoaded)
  /\ calls' = [calls EXCEPT ![i].st = "resolved"]
  /\ UNCHANGED << mode, passiveVars, snapshotVars, qTotal, qFailed,
                  qProgress, qIsComplete >>

\* img.onerror = reject / video.onerror = reject
onerror(i) ==
  /\ mode = "imperative"
  /\ calls[i].kind \in {"image", "video"}
  /\ calls[i].st = "pending"
  /\ calls' = [calls EXCEPT ![i].st = "rejected"]
  /\ UNCHANGED << mode, passiveVars, snapshotVars, queueVars >>

\* the 100 ms timer of loadFont fires: onAssetLoaded()
fontTimeout(i) ==
  /\ mode = "imperative"
  /\ calls[i].kind = "font"
  /\ calls[i].st = "timer"
  /\ qLoaded' = onAssetLoaded(qLoaded)
  /\ calls' = [calls EXCEPT ![i].st = "done"]
  /\ UNCHANGED << mode, passiveVars, snapshotVars, qTotal, qFailed,
                  qProgress, qIsComplete >>

\* reset(): setLoadedCount(0); setTotalCount(0)
reset ==
  /\ mode = "imperative"
  /\ qLoaded' = SetValue(qLoaded, 0)
  /\ qTotal' = SetValue(qTotal, 0)
  /\ UNCHANGED << mode, passiveVars, snapshotVars, qFailed, qProgress,
                  qIsComplete, calls >>

\* ----------------------------------------------------------------- render
\* The progress effect as run after a render that returned the counters
\* loaded, failed and total: the setProgress / setIsComplete calls it queues.
progressEffect(loaded, failed, total) ==
  IF total > 0
    THEN /\ qProgress' =
              [has |-> TRUE,
               num |-> newProgress(loaded, failed, total).num,
               den |-> newProgress(loaded, failed, total).den,
               flag |-> FALSE]
         /\ qIsComplete' =
              [has |-> TRUE, num |-> 0, den |-> 1,
               flag |-> allAssetsFinished(loaded, failed, total)]
    ELSE /\ qProgress' = NoPending
         /\ qIsComplete' = NoPending

committedProgressReinitialised(pending, prev) ==
  IF pending.has THEN Ratio(pending.num, pending.den) ELSE Ratio(0, 1)

\* const [progress, setProgress] = useState(0): a render returns the value
\* of the last setProgress call, or the previous value when none is queued
committedProgress(pending, prev) ==
  IF pending.has THEN Ratio(pending.num, pending.den) ELSE prev

depsChangedTotalOnly(loaded, failed, total) == total # totalCount

\* }, [loadedCount, failedCount, totalCount]): the effect runs after a render
\* in which one of its dependencies differs from the previous render
depsChanged(loaded, failed, total) ==
  << loaded, failed, total >> # << loadedCount, failedCount, totalCount >>

\* React applies every queued update and calls the hook again, which returns
\* the new snapshot; then it runs the effects whose dependencies changed.
\* The imperative hook computes progress and isComplete while rendering.
Render ==
  /\ RenderScheduled
  /\ LET t == ApplyQueue(qTotal, totalCount)
         l == ApplyQueue(qLoaded, loadedCount)
         f == ApplyQueue(qFailed, failedCount)
     IN /\ totalCount' = t
        /\ loadedCount' = l
        /\ failedCount' = f
        /\ IF mode = "passive"
             THEN /\ progress' = committedProgress(qProgress, progress)
                  /\ isComplete' = IF qIsComplete.has THEN qIsComplete.flag
                                                     ELSE isComplete
                  /\ IF depsChanged(l, f, t)
                       THEN progressEffect(l, f, t)
                       ELSE /\ qProgress' = NoPending
                            /\ qIsComplete' = NoPending
             ELSE /\ progress' = Ratio(impProgress(l, t), 1)
                  /\ isComplete' = impIsComplete(l, t)
                  /\ qProgress' = NoPending
                  /\ qIsComplete' = NoPending
  /\ qTotal' = EmptyQueue
  /\ qLoaded' = EmptyQueue
  /\ qFailed' = EmptyQueue
  /\ effectReinvoked' = FALSE
  /\ lateElement' = FALSE
  /\ UNCHANGED << mode, options, doc, hasScanned, totalAssets, scannedKinds,
                  trackVars, now, calls >>

\* ------------------------------------------------------------------- Next
Next ==
  \/ MountEffect
  \/ \E r \in Resources : ThenCallback(r)
  \/ \E r \in Resources : SuccessEvent(r)
  \/ \E r \in Resources : ErrorEvent(r)
  \/ \E r \in Resources : TimerFire(r)
  \/ Tick
  \/ AppendElement
  \/ Unmount
  \/ Render
  \/ loadImage
  \/ loadVideo
  \/ loadFont
  \/ \E i \in 1..Len(calls) : onload(i)
  \/ \E i \in 1..Len(calls) : onerror(i)
  \/ \E i \in 1..Len(calls) : fontTimeout(i)
  \/ reset

Spec == Init /\ [][Next]_vars


\* Events are at the environment's discretion.  The event loop and React
\* keep running the work they have scheduled: the mount effect, promise
\* reactions, due timers, the clock, and renders.
Scheduled ==
  \/ MountEffect
  \/ \E r \in Resources : ThenCallback(r)
  \/ \E r \in Resources : TimerFire(r)
  \/ Tick

Fairness ==
  /\ WF_vars(Scheduled)
  /\ WF_vars(Render)
  /\ WF_vars(\E i \in 1..Len(calls) : fontTimeout(i))

\* the hook mounted without options: every kind is scanned
InitAllKinds == InitState({NoOptions})

FairSpec == InitAllKinds /\ [][Next]_vars /\ Fairness

\* The documents the option claims are checked on: one element state per
\* kind, in every combination of at most MaxAssets elements.
CfgElements ==
  { Element("images", FALSE, 0, 0, "-"),
    Element("videos", FALSE, 0, 4, "-"),
    Element("audios", FALSE, 0, 4, "-"),
    Element("fonts", FALSE, 0, 0, "unloaded") }

CfgDocuments ==
  { d \in Documents : \A i \in 1..Len(d) : d[i] \in CfgElements }

InitCfg == InitState(AllOptions) /\ doc \in CfgDocuments

SpecCfg == InitCfg /\ [][Next]_vars

\* The counters the arithmetic of the imperative hook is checked on: the
\* hook after up to MaxTotal calls of load*, all of them loaded and rendered.
CounterStarts == { << total, total >> : total \in 0..MaxTotal }

InitImperativeAt(loaded, total) ==
  /\ mode = "imperative"
  /\ options = NoOptions
  /\ doc = << >>
  /\ hasScanned = FALSE
  /\ effectReinvoked = FALSE
  /\ lateElement = FALSE
  /\ totalAssets = 0
  /\ scannedKinds = {}
  /\ listeners = << >>
  /\ timer = << >>
  /\ promise = << >>
  /\ thenDone = << >>
  /\ incLoaded = << >>
  /\ incFailed = << >>
  /\ now = 0
  /\ totalCount = total
  /\ loadedCount = loaded
  /\ failedCount = 0
  /\ progress = Ratio(impProgress(loaded, total), 1)
  /\ isComplete = impIsComplete(loaded, total)
  /\ qTotal = EmptyQueue
  /\ qLoaded = EmptyQueue
  /\ qFailed = EmptyQueue
  /\ qProgress = NoPending
  /\ qIsComplete = NoPending
  /\ calls = << >>

InitCounters ==
  \/ InitAllKinds /\ mode = "passive" /\ doc \in CfgDocuments
  \/ \E c \in CounterStarts : InitImperativeAt(c[1], c[2])

SpecCounters == InitCounters /\ [][Next]_vars

\* ----------------------------------------------------------------- claims
Tracked(r) == doc[r].kind \in scannedKinds

Counted(r) == incLoaded[r] + incFailed[r] >= 1

SlowPath(r) == Tracked(r) /\ scanElement(doc[r], 0).listeners # {}

\* a success or error event of the element has occurred since the scan: a
\* once-listener is removed exactly when its event first fires
EvFired(r) == SlowPath(r) /\ listeners[r] # {"success", "error"}

AllCounted == \A r \in Resources : Tracked(r) => Counted(r)

Quiescent == ~UpdatePending /\ NoMicrotask

\* C1: passive mode, every reachable state: loadedCount + failedCount <=
\* totalCount, in the snapshot and in the values the queued updates (those of
\* scanFonts and setTotalCount included) give the counters at the next render.
C1_LoadedPlusFailedWithinTotal ==
  mode = "passive" =>
    /\ loadedCount + failedCount <= totalCount
    /\ ApplyQueue(qLoaded, loadedCount) + ApplyQueue(qFailed, failedCount)
         <= ApplyQueue(qTotal, totalCount)

C1_Witness ==
  /\ mode = "passive"
  /\ \E r \in Resources :
       doc[r].kind = "fonts" /\ doc[r].status = "unloaded" /\ incLoaded[r] = 1
  /\ \E r \in Resources :
       doc[r].kind = "fonts" /\ doc[r].status = "error" /\ incFailed[r] = 1
  /\ loadedCount = 1
  /\ failedCount = 1
  /\ totalCount = 2

\* C2: every enumerated resource gets at most one counter increment in total,
\* whatever success events, error events and timer firings occur.
C2_AtMostOneIncrementPerResource ==
  \A r \in Resources : incLoaded[r] + incFailed[r] <= 1

C2_Witness ==
  \E r \in Resources :
    /\ doc[r].kind = "videos"
    /\ SlowPath(r)
    /\ EvFired(r)
    /\ listeners[r] = {}
    /\ timer[r] = NoTimer
    /\ incLoaded[r] + incFailed[r] = 1

\* C3: passive mode: every resource enumerated at mount is eventually counted
\* as loaded or failed, even with no success or error event, given that
\* timers fire.
C3_EveryEnumeratedResourceSettles ==
  (mode = "passive" /\ hasScanned) ~> AllCounted

\* C4: passive mode: once every resource has settled, at least one of them as
\* failed, isComplete eventually becomes true (with the counters adding up).
C4_CompleteDespiteFailures ==
  (/\ mode = "passive"
   /\ hasScanned
   /\ totalAssets > 0
   /\ AllCounted
   /\ \E r \in Resources : incFailed[r] >= 1)
    ~> (isComplete /\ failedCount >= 1 /\ loadedCount + failedCount = totalCount)

\* two videos, one that fired error and one silent until the timeout
C4_Witness ==
  /\ mode = "passive"
  /\ Len(doc) = 2
  /\ \A r \in Resources : doc[r].kind = "videos" /\ SlowPath(r)
  /\ EvFired(1)
  /\ ~EvFired(2)
  /\ now >= TimeoutUnits
  /\ failedCount = 2
  /\ totalCount = 2
  /\ isComplete

\* C5: passive mode, every snapshot: isComplete is true if and only if
\* totalCount > 0 and loadedCount + failedCount = totalCount.
C5_IsCompleteIffAllSettled ==
  mode = "passive" =>
    (isComplete <=> (totalCount > 0 /\ loadedCount + failedCount = totalCount))

\* C6: a tracked resource that fires no success or error event is not counted
\* before the timeout (TimeoutUnits after enumeration) and is counted as
\* failed once the timeout has elapsed, for every tracked kind.
C6_SilentResourceFailsAtTimeout ==
  (mode = "passive" /\ hasScanned) =>
    \A r \in Resources :
      (SlowPath(r) /\ ~EvFired(r)) =>
        /\ now < TimeoutUnits => incLoaded[r] + incFailed[r] = 0
        /\ now > TimeoutUnits => (incFailed[r] = 1 /\ incLoaded[r] = 0)

\* C7: both modes: in every snapshot with totalCount = 0, progress = 0 and
\* isComplete = false.
C7_NoProgressWithoutAssets ==
  totalCount = 0 => (RatioEq(progress, Ratio(0, 1)) /\ ~isComplete)

\* imperative mode after a reset with a load still in flight: loadedCount is
\* positive while totalCount is 0
C7_Witness ==
  /\ mode = "imperative"
  /\ totalCount = 0
  /\ loadedCount > 0

\* C8: passive mode, every snapshot: 0 <= progress <= 100.
C8_ProgressInRange ==
  mode = "passive" =>
    /\ RatioLeq(Ratio(0, 1), progress)
    /\ RatioLeq(progress, Ratio(100, 1))

C8_Witness ==
  /\ mode = "passive"
  /\ failedCount = 1
  /\ loadedCount = 1
  /\ totalCount = 2
  /\ RatioEq(progress, Ratio(100, 1))

\* C9: passive mode, scan and ignore both given: kind K is scanned iff
\* (scan = "all" or K in scan) and K not in ignore; totalCount after mount is
\* the number of resources of the scanned kinds; scan = ["images"],
\* ignore = ["images"] gives totalCount = 0, isComplete = false, progress = 0.
C9_ScannedIffSelectedAndNotIgnored ==
  (/\ mode = "passive"
   /\ hasScanned
   /\ options.given
   /\ options.scan.tag # "undefined"
   /\ options.ignore.tag # "undefined") =>
    /\ \A k \in Kinds :
         k \in scannedKinds <=>
           ((options.scan.tag = "all" \/ k \in options.scan.list)
              /\ k \notin options.ignore.list)
    /\ ApplyQueue(qTotal, totalCount) =
         Cardinality({ r \in Resources :
           (options.scan.tag = "all" \/ doc[r].kind \in options.scan.list)
             /\ doc[r].kind \notin options.ignore.list })
    /\ (options.scan.list = {"images"} /\ options.ignore.list = {"images"}) =>
         (/\ scannedKinds = {}
          /\ totalCount = 0
          /\ ~isComplete
          /\ RatioEq(progress, Ratio(0, 1)))

C9_Witness ==
  /\ mode = "passive"
  /\ hasScanned
  /\ options.given
  /\ options.scan.tag = "list"
  /\ options.scan.list = {"images", "videos"}
  /\ options.ignore.tag = "list"
  /\ options.ignore.list = {"videos"}
  /\ Len(doc) = 2
  /\ doc[1].kind = "images"
  /\ doc[2].kind = "videos"
  /\ scannedKinds = {"images"}
  /\ totalCount = 1

\* C10: passive mode: an omitted scan behaves as "all" and an omitted ignore
\* as the empty list, each independently of the other.
C10_OptionDefaults ==
  (mode = "passive" /\ hasScanned) =>
    LET scanOmitted == ~options.given \/ options.scan.tag = "undefined"
        ignoreOmitted == ~options.given \/ options.ignore.tag = "undefined"
    IN /\ scanOmitted =>
            scannedKinds = Kinds \ (IF ignoreOmitted THEN {} ELSE options.ignore.list)
       /\ (ignoreOmitted /\ ~scanOmitted) =>
            scannedKinds = (IF options.scan.tag = "all" THEN Kinds
                                                        ELSE options.scan.list)

C10_Witness ==
  /\ mode = "passive"
  /\ hasScanned
  /\ options.given
  /\ options.scan.tag = "undefined"
  /\ options.ignore.tag = "list"
  /\ options.ignore.list = {"videos"}
  /\ scannedKinds = {"images", "audios", "fonts"}

\* C11: passive mode: once the mount effect has scanned, no later step (a
\* second invocation of the effect included) scans again: hasScanned stays
\* set, totalAssets and the scanned kinds do not change, no listener or
\* timer is registered anew, and the totalCount published stays the number of
\* resources of the scanned kinds.
C11_EnumerationRunsOnce ==
  [][(mode = "passive" /\ hasScanned) =>
       /\ hasScanned'
       /\ totalAssets' = totalAssets
       /\ scannedKinds' = scannedKinds
       /\ totalAssets =
            Cardinality({ r \in Resources : doc[r].kind \in scannedKinds })
       /\ ApplyQueue(qTotal', totalCount') = totalAssets
       /\ \A r \in Resources :
            /\ listeners'[r] \subseteq listeners[r]
            /\ timer'[r] \in {timer[r], NoTimer}
            /\ incLoaded'[r] + incFailed'[r] <= 1]_vars

\* the step just taken invoked the effect a second time on a page of two
\* tracked resources
C11_Witness ==
  /\ mode = "passive"
  /\ effectReinvoked
  /\ Len(doc) = 2
  /\ scannedKinds = Kinds
  /\ totalAssets = 2
  /\ ApplyQueue(qTotal, totalCount) = 2

\* C12: no counter update is lost.  Passive mode: the value the queued
\* updates give loadedCount (failedCount) at the next render is the number of
\* loaded (failed) outcomes delivered so far, however many were delivered
\* since the last render.  Imperative mode: every onload / font timer step
\* adds exactly one to the value loadedCount gets at the next render.
C12_NoLostUpdate ==
  [][/\ mode = "passive" =>
          /\ ApplyQueue(qLoaded', loadedCount') = SumOver(Resources, incLoaded')
          /\ ApplyQueue(qFailed', failedCount') = SumOver(Resources, incFailed')
     /\ (/\ mode = "imperative"
         /\ Len(calls') = Len(calls)
         /\ \E i \in 1..Len(calls) :
              calls[i].st # calls'[i].st /\ calls'[i].st \in {"resolved", "done"}) =>
          ApplyQueue(qLoaded', loadedCount') =
            ApplyQueue(qLoaded, loadedCount) + 1]_vars

\* two outcomes, one loaded and one failed, delivered before any re-render
C12_Witness ==
  /\ mode = "passive"
  /\ \E r \in Resources : SlowPath(r) /\ incLoaded[r] = 1
  /\ \E r \in Resources : SlowPath(r) /\ incFailed[r] = 1
  /\ qLoaded.add = 1
  /\ qFailed.add = 1
  /\ loadedCount = 0
  /\ failedCount = 0

\* C13: imperative mode: the step in which an image requested by loadImage
\* fails (its promise rejects) increases failedCount by exactly one and
\* leaves loadedCount unchanged.
C13_FailedImageCountsAsFailed ==
  [][\A i \in 1..Len(calls) :
       (/\ mode = "imperative"
        /\ Len(calls') = Len(calls)
        /\ calls[i].kind = "image"
        /\ calls[i].st = "pending"
        /\ calls'[i].st = "rejected") =>
         /\ ApplyQueue(qFailed', failedCount') =
              ApplyQueue(qFailed, failedCount) + 1
         /\ ApplyQueue(qLoaded', loadedCount') =
              ApplyQueue(qLoaded, loadedCount)]_vars

\* every load* call made so far has settled, at least one of them as failed,
\* and no reset() has taken totals away
SettledWithFailure ==
  /\ mode = "imperative"
  /\ Len(calls) > 0
  /\ \A i \in 1..Len(calls) : calls[i].st \in {"resolved", "rejected", "done"}
  /\ \E i \in 1..Len(calls) : calls[i].st = "rejected"
  /\ ApplyQueue(qTotal, totalCount) = Len(calls)

\* C14: imperative mode: once every requested resource has settled, at least
\* one of them as failed, isComplete eventually becomes true (unless further
\* calls or a reset() change the set of requested resources first).
C14_ImperativeCompleteDespiteFailure ==
  SettledWithFailure ~> (isComplete \/ ~SettledWithFailure)

\* C15: imperative mode, every snapshot, whatever the interleaving of load*
\* calls, completion events and reset() calls: loadedCount <= totalCount.
C15_ImperativeLoadedWithinTotal ==
  mode = "imperative" => loadedCount <= totalCount

\* C16: imperative mode: every step other than reset() changes the value
\* totalCount gets at the next render by the number of load* calls it makes
\* (0 or 1), so with no reset() n calls give totalCount = n; the call a step
\* makes tracks one resource, which is not yet settled, and loadedCount is
\* not touched by the call.
C16_EachCallAddsOneToTotal ==
  [][(mode = "imperative" /\ ~reset) =>
       /\ Len(calls') - Len(calls) \in {0, 1}
       /\ ApplyQueue(qTotal', totalCount') - ApplyQueue(qTotal, totalCount)
            = Len(calls') - Len(calls)
       /\ Len(calls') > Len(calls) =>
            /\ calls'[Len(calls')].st \in {"pending", "timer"}
            /\ \A i \in 1..Len(calls) : calls'[i] = calls[i]
            /\ ApplyQueue(qLoaded', loadedCount') =
                 ApplyQueue(qLoaded, loadedCount)]_vars

\* two calls rendered before either resource has settled
C16_Witness ==
  /\ mode = "imperative"
  /\ Len(calls) = 2
  /\ calls[1].kind = "image"
  /\ calls[2].kind = "font"
  /\ calls[1].st = "pending"
  /\ calls[2].st = "timer"
  /\ totalCount = 2
  /\ loadedCount = 0

\* C17: imperative mode: a reset() step makes the values loadedCount and
\* totalCount get at the next render 0, whatever the counters and the queued
\* updates were; and the render at which a reset() takes effect (no update
\* was queued after it) returns loadedCount = 0, totalCount = 0,
\* progress = 0 and isComplete = false.
C17_ResetZeroesSnapshot ==
  [][/\ (mode = "imperative" /\ reset) =>
          /\ ApplyQueue(qLoaded', loadedCount') = 0
          /\ ApplyQueue(qTotal', totalCount') = 0
     /\ (/\ mode = "imperative"
         /\ qLoaded.set = 0 /\ qLoaded.add = 0
         /\ qTotal.set = 0 /\ qTotal.add = 0
         /\ Render) =>
          /\ loadedCount' = 0
          /\ totalCount' = 0
          /\ RatioEq(progress', Ratio(0, 1))
          /\ ~isComplete']_vars

\* a reset() has taken effect after two calls had completed
C17_Witness ==
  /\ mode = "imperative"
  /\ Len(calls) = 2
  /\ calls[1].st = "resolved"
  /\ calls[2].st = "done"
  /\ ~UpdatePending
  /\ loadedCount = 0
  /\ totalCount = 0
  /\ RatioEq(progress, Ratio(0, 1))
  /\ ~isComplete

\* C18: counters never decrease except by reset().  Passive mode: no step
\* lowers totalCount, loadedCount or failedCount, rendered or queued.
\* Imperative mode: the only step that lowers the value loadedCount or
\* totalCount gets at the next render is reset(), and a render lowers a
\* rendered counter only by applying a queued reset().
C18_CountersOnlyLoweredByReset ==
  [][/\ mode = "passive" =>
          /\ totalCount' >= totalCount
          /\ loadedCount' >= loadedCount
          /\ failedCount' >= failedCount
          /\ ApplyQueue(qTotal', totalCount') >= ApplyQueue(qTotal, totalCount)
          /\ ApplyQueue(qLoaded', loadedCount') >= ApplyQueue(qLoaded, loadedCount)
          /\ ApplyQueue(qFailed', failedCount') >= ApplyQueue(qFailed, failedCount)
     /\ mode = "imperative" =>
          /\ (\/ ApplyQueue(qTotal', totalCount') < ApplyQueue(qTotal, totalCount)
              \/ ApplyQueue(qLoaded', loadedCount') < ApplyQueue(qLoaded, loadedCount))
               => reset
          /\ totalCount' < totalCount => qTotal.set = 0
          /\ loadedCount' < loadedCount => qLoaded.set = 0]_vars

\* reset() has just been called on rendered counters 2 / 2
C18_Witness ==
  /\ mode = "imperative"
  /\ totalCount = 2
  /\ loadedCount = 2
  /\ qTotal.set = 0
  /\ qLoaded.set = 0
  /\ ApplyQueue(qTotal, totalCount) = 0
  /\ ApplyQueue(qLoaded, loadedCount) = 0

\* C19: first settlement wins and is permanent.  For a slow-path resource
\* whose promise is pending, a success event counts it as loaded, an error
\* event or its timer counts it as failed; once its promise is settled no
\* step changes its outcome or its increments, and a later event or timer
\* of that resource queues no counter update.
C19_FirstSettlementWins ==
  [][\A r \in Resources :
       SlowPath(r) =>
         /\ (promise[r] = "pending" /\ SuccessEvent(r)) =>
              /\ promise'[r] = "loaded"
              /\ incLoaded'[r] = 1
              /\ incFailed'[r] = 0
         /\ (promise[r] = "pending" /\ (ErrorEvent(r) \/ TimerFire(r))) =>
              /\ promise'[r] = "failed"
              /\ incFailed'[r] = 1
              /\ incLoaded'[r] = 0
         /\ promise[r] # "pending" =>
              /\ promise'[r] = promise[r]
              /\ incLoaded'[r] = incLoaded[r]
              /\ incFailed'[r] = incFailed[r]
              /\ (SuccessEvent(r) \/ ErrorEvent(r) \/ TimerFire(r)) =>
                   (qLoaded' = qLoaded /\ qFailed' = qFailed)]_vars

\* a video that settled as failed and whose error event, canplay event and
\* timer have all occurred: it is counted once, as failed
C19_Witness ==
  \E r \in Resources :
    /\ doc[r].kind = "videos"
    /\ SlowPath(r)
    /\ promise[r] = "failed"
    /\ listeners[r] = {}
    /\ timer[r] = NoTimer
    /\ now = TimeoutUnits
    /\ ~UpdatePending
    /\ Len(doc) = 1
    /\ failedCount = 1
    /\ loadedCount = 0

\* the element is fully usable when the scan reads it
FullyUsable(e) ==
  CASE e.kind = "images" -> e.complete /\ e.naturalWidth > 0
    [] e.kind \in {"videos", "audios"} -> e.readyState >= HAVE_ENOUGH_DATA
    [] e.kind = "fonts" -> e.status = "loaded"

\* C20: a tracked resource that is fully usable at scan time is settled as
\* loaded by the scan itself and counted as loaded, once, before any event
\* is handled or time passes (as soon as its promise reaction has run); it
\* is never counted as failed or twice, also after its timer has fired.
C20_FastPathCountsLoadedOnce ==
  (mode = "passive" /\ hasScanned) =>
    \A r \in Resources :
      (Tracked(r) /\ FullyUsable(doc[r])) =>
        /\ promise[r] = "loaded"
        /\ incFailed[r] = 0
        /\ incLoaded[r] = (IF thenDone[r] THEN 1 ELSE 0)
        /\ NoMicrotask => incLoaded[r] = 1

\* a video with readyState 4 whose 7000 ms timer has fired
C20_Witness ==
  \E r \in Resources :
    /\ mode = "passive"
    /\ doc[r].kind = "videos"
    /\ FullyUsable(doc[r])
    /\ Tracked(r)
    /\ timer[r] = NoTimer
    /\ now >= TimeoutUnits
    /\ incLoaded[r] = 1
    /\ incFailed[r] = 0
    /\ Len(doc) = 1
    /\ loadedCount = 1
    /\ failedCount = 0
    /\ ~UpdatePending

\* C21: passive mode: when every tracked resource has been counted as loaded
\* (by a success event or on the fast path) and nothing is pending, the
\* snapshot has loadedCount = totalCount > 0, failedCount = 0,
\* progress = 100 and isComplete = true.
C21_AllLoadedEndsComplete ==
  (/\ mode = "passive"
   /\ hasScanned
   /\ totalAssets > 0
   /\ \A r \in Resources : Tracked(r) => (incLoaded[r] = 1 /\ incFailed[r] = 0)
   /\ Quiescent) =>
    /\ loadedCount = totalCount
    /\ totalCount = totalAssets
    /\ failedCount = 0
    /\ RatioEq(progress, Ratio(100, 1))
    /\ isComplete

\* two images, one loaded on the fast path and one by its load event
C21_Witness ==
  /\ mode = "passive"
  /\ Len(doc) = 2
  /\ doc[1].kind = "images" /\ doc[2].kind = "images"
  /\ \E r \in Resources : FullyUsable(doc[r]) /\ incLoaded[r] = 1
  /\ \E r \in Resources : SlowPath(r) /\ EvFired(r) /\ incLoaded[r] = 1
  /\ Quiescent
  /\ loadedCount = 2
  /\ totalCount = 2
  /\ failedCount = 0
  /\ RatioEq(progress, Ratio(100, 1))
  /\ isComplete

\* C22: passive mode: totalCount is written once, by the setTotalCount that
\* ends the scan, with the number of resources of the scanned kinds that the
\* document held at mount; no increment is ever queued for it, and an
\* element appended after mount changes neither totalAssets nor totalCount
\* and contributes no counter increment.
C22_TotalWrittenOnce ==
  mode = "passive" =>
    /\ qTotal.add = 0
    /\ ~hasScanned => (totalCount = 0 /\ qTotal = EmptyQueue /\ totalAssets = 0)
    /\ hasScanned =>
         /\ totalAssets =
              Cardinality({ r \in Resources : doc[r].kind \in scannedKinds })
         /\ qTotal.set \in {NoValue, totalAssets}
         /\ ApplyQueue(qTotal, totalCount) = totalAssets
         /\ totalCount \in {0, totalAssets}
         /\ ApplyQueue(qLoaded, loadedCount) + ApplyQueue(qFailed, failedCount)
              = SumOver(Resources, incLoaded) + SumOver(Resources, incFailed)

\* an element has just been appended to a page whose two resources are
\* tracked and settled
C22_Witness ==
  /\ mode = "passive"
  /\ hasScanned
  /\ lateElement
  /\ Len(doc) = 2
  /\ scannedKinds = Kinds
  /\ totalAssets = 2
  /\ totalCount = 2
  /\ loadedCount + failedCount = 2

\* C23: passive mode: whenever no update is pending, progress and isComplete
\* are the values computed from the counters of the snapshot:
\* progress = (loadedCount + failedCount) / totalCount * 100 and
\* isComplete = (loadedCount + failedCount = totalCount) when totalCount > 0,
\* and 0 / false when totalCount = 0.
C23_DerivedValuesFreshWhenQuiescent ==
  (mode = "passive" /\ ~UpdatePending) =>
    IF totalCount > 0
      THEN /\ RatioEq(progress,
                      Ratio((loadedCount + failedCount) * 100, totalCount))
           /\ isComplete <=> (loadedCount + failedCount = totalCount)
      ELSE /\ RatioEq(progress, Ratio(0, 1))
           /\ ~isComplete

\* half of the resources are counted and the derived values have caught up
C23_Witness ==
  /\ mode = "passive"
  /\ ~UpdatePending
  /\ totalCount = 2
  /\ loadedCount = 0
  /\ failedCount = 1
  /\ RatioEq(progress, Ratio(50, 1))
  /\ ~isComplete

\* the tracked resources whose promise settled as failed and whose reaction
\* has run
FailedResources ==
  { r \in Resources : Tracked(r) /\ promise[r] = "failed" /\ thenDone[r] }

\* C24: passive mode: a failure is a value of the resource's promise, never
\* an exception; every failed resource, whether an error event or the
\* timeout failed it, has exactly one failedCount increment and no
\* loadedCount increment, and the value failedCount gets at the next render
\* is the number of failed resources, whatever failed them.
C24_FailuresOnlyCountAsFailed ==
  mode = "passive" =>
    /\ \A r \in Resources : promise[r] \in {"pending", "loaded", "failed"}
    /\ \A r \in FailedResources : incFailed[r] = 1 /\ incLoaded[r] = 0
    /\ \A r \in Resources \ FailedResources : incFailed[r] = 0
    /\ ApplyQueue(qFailed, failedCount) = Cardinality(FailedResources)
    /\ ApplyQueue(qLoaded, loadedCount) = SumOver(Resources, incLoaded)

\* two audios: one failed by its error event before the timeout, the other
\* by the timeout with no event
C24_Witness ==
  /\ mode = "passive"
  /\ Len(doc) = 2
  /\ \A r \in Resources : doc[r].kind = "audios" /\ SlowPath(r)
  /\ "error" \notin listeners[1] /\ "success" \in listeners[1]
  /\ listeners[2] = {"success", "error"}
  /\ timer[2] = NoTimer
  /\ FailedResources = {1, 2}
  /\ ~UpdatePending
  /\ failedCount = 2
  /\ loadedCount = 0

\* the fonts of the document, when scanFonts has run
ScannedFonts ==
  { r \in Resources : doc[r].kind = "fonts" /\ "fonts" \in scannedKinds }

\* C25: scanFonts classifies each font by its status at scan time: loaded and
\* unloaded fonts get one loaded increment during the scan, fonts in error
\* one failed increment during the scan, and a loading font is raced against
\* a timer of TimeoutUnits and counted once at the latest when that time has
\* passed; totalFonts is the number of fonts enumerated, and once the timeout
\* has passed it is the number of increments made for fonts.
C25_FontsClassifiedByStatus ==
  (mode = "passive" /\ hasScanned /\ "fonts" \in scannedKinds) =>
    /\ totalFonts(doc) = CountKind(doc, "fonts")
    /\ \A r \in ScannedFonts :
         CASE doc[r].status \in {"loaded", "unloaded"} ->
                incLoaded[r] = 1 /\ incFailed[r] = 0 /\ timer[r] = NoTimer
           [] doc[r].status = "error" ->
                incLoaded[r] = 0 /\ incFailed[r] = 1 /\ timer[r] = NoTimer
           [] doc[r].status = "loading" ->
                /\ incLoaded[r] + incFailed[r] <= 1
                /\ promise[r] = "pending" =>
                     /\ timer[r] = TimeoutUnits
                     /\ now <= TimeoutUnits
                     /\ incLoaded[r] + incFailed[r] = 0
                /\ now > TimeoutUnits => incLoaded[r] + incFailed[r] = 1
    /\ now > TimeoutUnits =>
         SumOver(ScannedFonts, incLoaded) + SumOver(ScannedFonts, incFailed)
           = totalFonts(doc)

\* an unloaded font counted as loaded by the scan and a loading font that
\* the timeout counted as failed
C25_Witness ==
  /\ mode = "passive"
  /\ Len(doc) = 2
  /\ ScannedFonts = {1, 2}
  /\ doc[1].status = "unloaded"
  /\ doc[2].status = "loading"
  /\ incLoaded[1] = 1
  /\ listeners[2] = {"success", "error"}
  /\ incFailed[2] = 1
  /\ now > TimeoutUnits
  /\ ~UpdatePending
  /\ loadedCount = 1
  /\ failedCount = 1
  /\ totalCount = 2

\* the test that sends an image, video or audio down the fast path
SettledByScan(e) ==
  CASE e.kind = "images" -> e.complete
    [] e.kind \in {"videos", "audios"} -> e.readyState >= HAVE_ENOUGH_DATA
    [] OTHER -> FALSE

\* C26: every tracked image, video and audio takes exactly one path.  Fast
\* path: its promise is settled by the scan and it never has a listener.
\* Slow path: the scan leaves its promise pending with one success and one
\* error listener, and it keeps both for as long as its promise is pending.
C26_ExactlyOnePath ==
  (mode = "passive" /\ hasScanned) =>
    \A r \in Resources :
      (Tracked(r) /\ doc[r].kind \in {"images", "videos", "audios"}) =>
        IF SettledByScan(doc[r])
          THEN /\ listeners[r] = {}
               /\ promise[r] # "pending"
               /\ ~SlowPath(r)
          ELSE /\ SlowPath(r)
               /\ listeners[r] \subseteq {"success", "error"}
               /\ JustScanned => promise[r] = "pending"
               /\ promise[r] = "pending" => listeners[r] = {"success", "error"}

\* right after the scan of a page with a video still loading and a video
\* with readyState 4
C26_Witness ==
  /\ mode = "passive"
  /\ JustScanned
  /\ Len(doc) = 2
  /\ doc[1].kind = "videos" /\ doc[2].kind = "videos"
  /\ ~SettledByScan(doc[1]) /\ SettledByScan(doc[2])
  /\ Tracked(1) /\ Tracked(2)
  /\ listeners[1] = {"success", "error"}
  /\ promise[1] = "pending"
  /\ listeners[2] = {}
  /\ promise[2] = "loaded"

\* C27: scanImages settles an image that is complete at scan time during the
\* scan and without listeners, as loaded when naturalWidth > 0 and as failed
\* when naturalWidth = 0, and counts it accordingly once its reaction has
\* run; only an image that is not complete gets the load / error listeners.
C27_CompleteImagesSettledByNaturalWidth ==
  (mode = "passive" /\ hasScanned /\ "images" \in scannedKinds) =>
    \A r \in Resources :
      doc[r].kind = "images" =>
        /\ timer[r] = NoTimer
        /\ IF doc[r].complete
             THEN /\ listeners[r] = {}
                  /\ promise[r] =
                       (IF doc[r].naturalWidth > 0 THEN "loaded" ELSE "failed")
                  /\ incLoaded[r] =
                       (IF thenDone[r] /\ doc[r].naturalWidth > 0 THEN 1 ELSE 0)
                  /\ incFailed[r] =
                       (IF thenDone[r] /\ doc[r].naturalWidth = 0 THEN 1 ELSE 0)
                  /\ NoMicrotask => thenDone[r]
             ELSE /\ JustScanned =>
                       (listeners[r] = {"success", "error"}
                          /\ promise[r] = "pending")
                  /\ promise[r] = "pending" =>
                       (listeners[r] = {"success", "error"}
                          /\ incLoaded[r] + incFailed[r] = 0)

\* a broken complete image counted as failed next to an image still loading
C27_Witness ==
  /\ mode = "passive"
  /\ Len(doc) = 2
  /\ doc[1].kind = "images" /\ doc[2].kind = "images"
  /\ Tracked(1) /\ Tracked(2)
  /\ ~doc[1].complete
  /\ doc[2].complete /\ doc[2].naturalWidth = 0
  /\ promise[1] = "pending"
  /\ listeners[1] = {"success", "error"}
  /\ incFailed[2] = 1
  /\ ~UpdatePending
  /\ now = 0
  /\ failedCount = 1
  /\ loadedCount = 0
  /\ totalCount = 2

\* C28: once the component that uses the passive hook is torn down, no
\* resource that is still unsettled keeps a listener or an armed timer, and
\* no counter update is issued for the torn-down hook; the counters of the
\* last snapshot are the ones the hook had when it was torn down (the
\* teardown is taken only when no update is queued, so any update queued after
\* it was issued after it).
C28_TeardownReleasesTracking ==
  mode = "unmounted" =>
    /\ \A r \in Resources :
         promise[r] = "pending" => listeners[r] = {} /\ timer[r] = NoTimer
    /\ qLoaded = EmptyQueue
    /\ qFailed = EmptyQueue

\* C29: imperative mode: a loadImage or loadVideo call whose resource fires
\* neither a success nor an error event does not stay pending for ever: a
\* timeout settles the promise it returned.
C29_ImperativeCallSettlesByTimeout ==
  \A i \in 1..MaxCalls :
    (/\ mode = "imperative"
     /\ i <= Len(calls)
     /\ calls[i].kind \in {"image", "video"}
     /\ calls[i].st = "pending")
      ~> (i <= Len(calls) /\ calls[i].st # "pending")

\* the resources of the document whose promise has the given outcome
WithOutcome(value) == { r \in Resources : Tracked(r) /\ promise[r] = value }

\* C30: passive mode: once every tracked resource has settled and every
\* update has been rendered, loadedCount, failedCount, progress and isComplete
\* are functions of the outcome of each resource alone: the number of loaded
\* ones, the number of failed ones, and their share of the tracked resources.
\* The order in which the settlement callbacks ran, and how renders
\* interleaved with them, leaves no trace in the final counters.
C30_FinalCountersIndependentOfOrder ==
  (/\ mode = "passive"
   /\ hasScanned
   /\ Quiescent
   /\ \A r \in Resources : Tracked(r) => promise[r] # "pending") =>
    LET loaded == Cardinality(WithOutcome("loaded"))
        failed == Cardinality(WithOutcome("failed"))
        tracked == Cardinality({ r \in Resources : Tracked(r) })
    IN /\ loadedCount = loaded
       /\ failedCount = failed
       /\ RatioEq(progress, IF tracked > 0
                              THEN Ratio((loaded + failed) * 100, tracked)
                              ELSE Ratio(0, 1))
       /\ isComplete <=> (tracked > 0)

\* two resources on the slow path have settled in one of the two orders, one
\* loaded by its event and one failed by its timer, and all is rendered
C30_Witness ==
  /\ mode = "passive"
  /\ Len(doc) = 2
  /\ \A r \in Resources : SlowPath(r)
  /\ \E r \in Resources :
       /\ promise[r] = "failed"
       /\ timer[r] = NoTimer
       /\ doc[r].kind # "images"
       /\ listeners[r] = {"success", "error"}
  /\ \E r \in Resources : promise[r] = "loaded" /\ "success" \notin listeners[r]
  /\ Quiescent
  /\ loadedCount = 1
  /\ failedCount = 1
  /\ isComplete

\* C31: passive mode: isComplete is stable: from a snapshot with isComplete
\* true, no step of the hook (a render, an event, a timer, an element added
\* to the document, the teardown) leads to a snapshot with isComplete false.
C31_IsCompleteStable ==
  [][(mode # "imperative" /\ isComplete) => isComplete']_vars

\* the hook is complete and a later step has been taken: an element was
\* appended to the document after the snapshot became complete
C31_Witness ==
  /\ mode = "passive"
  /\ isComplete
  /\ lateElement
  /\ \E r \in Resources : SlowPath(r) /\ promise[r] = "failed"

\* C32: passive mode: the published progress never decreases: no step of the
\* hook leads from a snapshot to one with a smaller progress.
C32_ProgressNonDecreasing ==
  [][mode # "imperative" => RatioLeq(progress, progress')]_vars

\* progress has risen from 0 to 100 as two resources on the slow path
\* settled, one loaded and one failed, and every update is rendered
C32_Witness ==
  /\ mode = "passive"
  /\ Len(doc) = 2
  /\ \A r \in Resources : SlowPath(r)
  /\ \E r \in Resources : promise[r] = "failed"
  /\ \E r \in Resources : promise[r] = "loaded"
  /\ RatioEq(progress, Ratio(100, 1))
  /\ Quiescent

\* The promise a load* call returned is resolved: loadImage and loadVideo
\* resolve it in onload / onloadeddata; loadFont is an async function with no
\* await, so the promise it returns is resolved as soon as the call returns.
promiseResolved(c) == c.kind = "font" \/ c.st = "resolved"

\* onAssetLoaded() has been called for the call's asset
incrementIssued(c) == c.st \in {"resolved", "done"}

\* C34: imperative mode: whenever the promise returned by loadImage, loadFont
\* or loadVideo is resolved, the loaded increment of its asset has already
\* been issued.
C34_CountedBeforeResolved ==
  mode = "imperative" =>
    \A i \in 1..Len(calls) :
      promiseResolved(calls[i]) => incrementIssued(calls[i])

\* C33: imperative mode: for all counters with 0 <= loadedCount <= totalCount
\* a snapshot with progress = 100 has isComplete true.
C33_FullProgressOnlyWhenComplete ==
  (mode = "imperative" /\ loadedCount <= totalCount) =>
    (RatioEq(progress, Ratio(100, 1)) => isComplete)

====
